---- MODULE Spec2Model ----
(***************************************************************************)
(* A model of openhtf/exe/phasemanager.py: PhaseOutcome, the runner thread *)
(* PhaseExecutorThread (_ThreadProc, _ThreadException, JoinOrDie) and the  *)
(* PhaseExecutor (ExecutePhases, _ExecuteOnePhase, Stop).                  *)
(*                                                                         *)
(* Three kinds of thread take steps:                                       *)
(*   - the sequencing thread, which runs the generator ExecutePhases on    *)
(*     behalf of its caller (pc is its position in the code);              *)
(*   - one work thread per PhaseExecutorThread that was started;           *)
(*   - external threads calling PhaseExecutor.Stop().                      *)
(***************************************************************************)
EXTENDS Integers, Sequences, FiniteSets, TLC

\* ------------------------------------------------------------------ bounds
\* Number of phases in test_state.pending_phases at construction.
NPhases == 2
\* Number of calls of Stop(), each made by an external thread of its own.
NStoppers == 2
\* Number of calls of PhaseOutcome(x) a client makes in ConstructSpec.
MaxConstructs == 2

\* The caller takes at most this many elements from ExecutePhases(), so at
\* most this many phase attempts (runners) are started.
MaxAttempts == 2

Phases == 1..NPhases
Runners == 1..MaxAttempts

\* ------------------------------------------------------- Python values
None == "None"
\* openhtf.PhaseResult members with valid_phase_return true / false.
ValidPhaseReturns == {"CONTINUE", "REPEAT", "FAIL"}
EngineOnlyResults == {"TIMEOUT", "ABORT"}
PhaseResultMembers == ValidPhaseReturns \cup EngineOnlyResults
\* Instances of Exception that can reach PhaseOutcome.
Exceptions == {"PhaseError", "InvalidPhaseResultError", "ThreadTerminationError"}
\* Values that are neither None, an Exception nor a PhaseResult.
OtherValues == {"int", "str"}
PyValues == {None} \cup PhaseResultMembers \cup Exceptions \cup OtherValues

\* What a phase's work may hand back from self._phase(self._phase_data): None,
\* any PhaseResult member, an Exception instance (returned, not raised), or
\* any other object.
WorkReturns == {None, "PhaseError"} \cup PhaseResultMembers \cup OtherValues

\* ------------------------------------------------------- PhaseOutcome
\* Variant of PhaseOutcomeAccepts: any PhaseResult member is accepted, its
\* valid_phase_return is not looked at.
PhaseOutcomeAccepts_AnyPhaseResult(phase_result) ==
  \/ phase_result = None
  \/ phase_result \in Exceptions
  \/ phase_result \in PhaseResultMembers

\* The condition of PhaseOutcome.__init__ under which it does NOT raise.
PhaseOutcomeAccepts(phase_result) ==
  \/ phase_result = None
  \/ phase_result \in Exceptions
  \/ (phase_result \in PhaseResultMembers /\ phase_result \in ValidPhaseReturns)

\* The namedtuple PhaseOutcome(phase_result).
PhaseOutcome(phase_result) == [phase_result |-> phase_result]

\* The call PhaseOutcome(phase_result) as its caller sees it: the namedtuple
\* when __init__ accepts the value, else the error __init__ raises.
NewPhaseOutcome(phase_result) ==
  IF PhaseOutcomeAccepts(phase_result) THEN PhaseOutcome(phase_result)
  ELSE [raises |-> "InvalidPhaseResultError"]

\* self._phase_outcome = None in PhaseExecutorThread.__init__: no PhaseOutcome.
NoOutcome == [unset |-> TRUE]

\* isinstance(x, PhaseOutcome)
IsPhaseOutcome(x) == "phase_result" \in DOMAIN x

is_timeout(o) == o.phase_result = None

raised_exception(o) == o.phase_result \in Exceptions

\* ------------------------------------------------------------ state
VARIABLES
  pending_phases,  \* test_state.pending_phases: sequence of phase ids
  running_phase,   \* test_state.running_phase: phase of the last PhaseRecord, 0 if none
  current_phase,   \* PhaseExecutor._current_phase: a runner id, 0 for None
  pc,              \* position of the sequencing thread
  phase,           \* argument of the _ExecuteOnePhase call in progress, 0 if none
  result,          \* value returned by JoinOrDie (outcome_wrapper.outcome)
  nRunners,        \* number of PhaseExecutorThread objects created so far
  runner_phase,    \* PhaseExecutorThread._phase of each runner
  thread,          \* position of each runner's work thread
  phase_outcome,   \* PhaseExecutorThread._phase_outcome of the newest runner
  kills,           \* number of Kill() calls each runner has received
  stop_pc,         \* number of Stop() calls at each position of Stop
  emitted,         \* the sequence ExecutePhases has yielded so far
  skips,           \* the guard-false skips so far: <<phase, Len(emitted)>>
  constructed      \* the calls PhaseOutcome(x) a client has made, each with
                   \* what it gave (used by ConstructSpec only)

vars == <<pending_phases, running_phase, current_phase, pc, phase, result,
          nRunners, runner_phase, thread, phase_outcome, kills, stop_pc, emitted, skips,
          constructed>>

seq_vars == <<pending_phases, running_phase, current_phase, pc, phase, result,
              nRunners, runner_phase, emitted, skips>>
work_vars == <<thread, phase_outcome>>

\* Positions of a Stop() call: not yet begun, between the test of line 207
\* and the Kill() of line 208, returned.  The calls are interchangeable, so
\* the state keeps how many of them are at each position.
StopPositions == {"idle", "kill", "done"}

\* threading.Thread.is_alive(): started and not yet finished.
is_alive(r) == thread[r] \in {"running", "closed"}

Init ==
  /\ pending_phases = [i \in 1..NPhases |-> i]
  /\ running_phase = 0
  /\ current_phase = 0
  /\ pc = "idle"
  /\ phase = 0
  /\ result = NoOutcome
  /\ nRunners = 0
  /\ runner_phase = [r \in Runners |-> 0]
  /\ thread = [r \in Runners |-> "unstarted"]
  /\ phase_outcome = NoOutcome
  /\ kills = [r \in Runners |-> 0]
  /\ stop_pc = [p \in StopPositions |-> IF p = "idle" THEN NStoppers ELSE 0]
  /\ emitted = <<>>
  /\ skips = {}
  /\ constructed = <<>>

\* ------------------------------------------------- KillableThread.Kill
\* The runner receives one more request to terminate its work thread.
Kill(r) == kills' = [kills EXCEPT ![r] = @ + 1]

\* ---------------------------------------------------- sequencing thread
\* The caller asks the generator for its next element (first call or resume
\* after a yield).  It stops asking once it has taken MaxAttempts elements,
\* unless the queue is empty and the call only ends the sequence.
Consume ==
  /\ pc \in {"idle", "yielded"}
  /\ nRunners < MaxAttempts \/ pending_phases = <<>>
  /\ pc' = "loop"
  /\ UNCHANGED <<pending_phases, running_phase, current_phase, phase, result,
                 nRunners, runner_phase, emitted, skips, kills, stop_pc>>
  /\ UNCHANGED work_vars
  /\ UNCHANGED constructed

\* Outcomes after which a test run cannot go on: FAIL, a timeout, an error.
Terminal(o) ==
  o.phase_result = "FAIL" \/ is_timeout(o) \/ raised_exception(o)

\* Variant of LoopTest: the loop also ends once the last outcome yielded was
\* terminal ("while pending_phases and not failed").
LoopTest_HaltsOnTerminal ==
  /\ pc = "loop"
  /\ IF \/ pending_phases = <<>>
        \/ (emitted # <<>> /\ Terminal(emitted[Len(emitted)].outcome))
       THEN pc' = "done" /\ phase' = 0
       ELSE pc' = "guard" /\ phase' = Head(pending_phases)
  /\ UNCHANGED <<pending_phases, running_phase, current_phase, result,
                 nRunners, runner_phase, emitted, skips, kills, stop_pc>>
  /\ UNCHANGED work_vars
  /\ UNCHANGED constructed

\* Variant of LoopTest: the phase handed to _ExecuteOnePhase is
\* pending_phases[-1] instead of pending_phases[0].
LoopTest_LastPhase ==
  /\ pc = "loop"
  /\ IF pending_phases = <<>>
       THEN pc' = "done" /\ phase' = 0
       ELSE pc' = "guard" /\ phase' = pending_phases[Len(pending_phases)]
  /\ UNCHANGED <<pending_phases, running_phase, current_phase, result,
                 nRunners, runner_phase, emitted, skips, kills, stop_pc>>
  /\ UNCHANGED work_vars
  /\ UNCHANGED constructed

\* Variant of LoopTest: the loop ends one phase early
\* ("while len(pending_phases) > 1").
LoopTest_StopsOneEarly ==
  /\ pc = "loop"
  /\ IF Len(pending_phases) <= 1
       THEN pc' = "done" /\ phase' = 0
       ELSE pc' = "guard" /\ phase' = Head(pending_phases)
  /\ UNCHANGED <<pending_phases, running_phase, current_phase, result,
                 nRunners, runner_phase, emitted, skips, kills, stop_pc>>
  /\ UNCHANGED work_vars
  /\ UNCHANGED constructed

\* while self.test_state.pending_phases: ... _ExecuteOnePhase(pending_phases[0])
LoopTest ==
  /\ pc = "loop"
  /\ IF pending_phases = <<>>
       THEN pc' = "done" /\ phase' = 0
       ELSE pc' = "guard" /\ phase' = Head(pending_phases)
  /\ UNCHANGED <<pending_phases, running_phase, current_phase, result,
                 nRunners, runner_phase, emitted, skips, kills, stop_pc>>
  /\ UNCHANGED work_vars
  /\ UNCHANGED constructed

\* The values phase.options.run_if can take on one evaluation: no predicate
\* configured, or a predicate returning truthy or falsey on phase_data.
GuardResults == {"absent", "truthy", "falsey"}

\* Variant of EvalGuard: a skipped phase is not popped from the queue.
EvalGuard_SkipKeepsPhase ==
  /\ pc = "guard"
  /\ \E run_if \in {"absent", "truthy", "falsey"} :
       IF run_if = "falsey"
         THEN /\ pending_phases' = pending_phases
              /\ skips' = skips \cup {<<phase, Len(emitted)>>}
              /\ pc' = "loop"
         ELSE /\ pc' = "start"
              /\ UNCHANGED <<pending_phases, skips>>
  /\ UNCHANGED <<running_phase, current_phase, phase, result, nRunners,
                 runner_phase, emitted, kills, stop_pc>>
  /\ UNCHANGED work_vars
  /\ UNCHANGED constructed

\* if phase.options.run_if and not phase.options.run_if(phase_data):
\*   pending_phases.pop(0); return
EvalGuard ==
  /\ pc = "guard"
  /\ \E run_if \in GuardResults :
       IF run_if = "falsey"
         THEN /\ pending_phases' = Tail(pending_phases)
              /\ skips' = skips \cup {<<phase, Len(emitted)>>}
              /\ pc' = "loop"
         ELSE /\ pc' = "start"
              /\ UNCHANGED <<pending_phases, skips>>
  /\ UNCHANGED <<running_phase, current_phase, phase, result, nRunners,
                 runner_phase, emitted, kills, stop_pc>>
  /\ UNCHANGED work_vars
  /\ UNCHANGED constructed

\* running_phase = PhaseRecord(...); phase_thread = PhaseExecutorThread(phase,
\* phase_data), whose __init__ sets _phase_outcome = None; phase_thread.start()
StartPhase ==
  /\ pc = "start"
  /\ LET r == nRunners + 1 IN
       /\ running_phase' = phase
       /\ nRunners' = r
       /\ runner_phase' = [runner_phase EXCEPT ![r] = phase]
       /\ thread' = [thread EXCEPT ![r] = "running"]
  /\ phase_outcome' = NoOutcome
  /\ pc' = "assign"
  /\ UNCHANGED <<pending_phases, current_phase, phase, result, emitted,
                 skips, kills, stop_pc>>
  /\ UNCHANGED constructed

\* self._current_phase = phase_thread
AssignCurrent ==
  /\ pc = "assign"
  /\ current_phase' = nRunners
  /\ pc' = "join"
  /\ UNCHANGED <<pending_phases, running_phase, phase, result, nRunners,
                 runner_phase, emitted, skips, kills, stop_pc>>
  /\ UNCHANGED work_vars
  /\ UNCHANGED constructed

\* gflags.DEFINE_integer('phase_default_timeout_ms', 3 * 60 * 1000, ...)
phase_default_timeout_ms == 180000

\* The values of phase.options.timeout_s: None (written <<>>) or a number of
\* seconds (written <<t>>), negative, zero or positive.
TimeoutOptions == {<<>>} \cup {<<t>> : t \in -1..1}

\* The argument JoinOrDie passes to join(): timeout_s if it is not None, else
\* the default flag in seconds.
JoinTimeout(timeout_s) ==
  IF timeout_s # <<>> THEN timeout_s[1] ELSE phase_default_timeout_ms \div 1000

\* if timeout_s is not None: self.join(timeout_s) else: self.join(default).
\* A join whose timeout is positive blocks; one whose timeout is zero or
\* negative returns at once, whether or not the thread has ended.
JoinCall ==
  /\ pc = "join"
  /\ \E timeout_s \in TimeoutOptions :
       pc' = IF JoinTimeout(timeout_s) > 0 THEN "joining" ELSE "chk_outcome"
  /\ UNCHANGED <<pending_phases, running_phase, current_phase, phase, result,
                 nRunners, runner_phase, emitted, skips, kills, stop_pc>>
  /\ UNCHANGED work_vars
  /\ UNCHANGED constructed

\* Variant of JoinReturns: the blocked join has no timeout.
JoinReturns_NoTimeout(r, has_timeout) == ~is_alive(r)

\* A blocked threading.Thread.join(timeout) returns when the thread has ended
\* or when the timeout has run out, whichever comes first.  The length of the
\* wait is not measured: the timeout can run out in any state.
JoinReturns(r, has_timeout) == ~is_alive(r) \/ has_timeout

Join ==
  /\ pc = "joining"
  /\ JoinReturns(nRunners, TRUE)
  /\ pc' = "chk_outcome"
  /\ UNCHANGED <<pending_phases, running_phase, current_phase, phase, result,
                 nRunners, runner_phase, emitted, skips, kills, stop_pc>>
  /\ UNCHANGED work_vars
  /\ UNCHANGED constructed

\* if isinstance(self._phase_outcome, PhaseOutcome): return self._phase_outcome
CheckOutcome ==
  /\ pc = "chk_outcome"
  /\ IF IsPhaseOutcome(phase_outcome)
       THEN result' = phase_outcome /\ pc' = "finish"
       ELSE result' = result /\ pc' = "chk_alive"
  /\ UNCHANGED <<pending_phases, running_phase, current_phase, phase,
                 nRunners, runner_phase, emitted, skips, kills, stop_pc>>
  /\ UNCHANGED work_vars
  /\ UNCHANGED constructed

\* Variant of CheckAlive: a thread that ended without an outcome is reported
\* with the default result CONTINUE.
CheckAlive_DeadIsContinue ==
  /\ pc = "chk_alive"
  /\ IF is_alive(nRunners)
       THEN result' = result /\ pc' = "kill"
       ELSE result' = PhaseOutcome("CONTINUE") /\ pc' = "finish"
  /\ UNCHANGED <<pending_phases, running_phase, current_phase, phase,
                 nRunners, runner_phase, emitted, skips, kills, stop_pc>>
  /\ UNCHANGED work_vars
  /\ UNCHANGED constructed

\* if self.is_alive(): ...   else: return PhaseOutcome(ThreadTerminationError())
CheckAlive ==
  /\ pc = "chk_alive"
  /\ IF is_alive(nRunners)
       THEN result' = result /\ pc' = "kill"
       ELSE result' = PhaseOutcome("ThreadTerminationError") /\ pc' = "finish"
  /\ UNCHANGED <<pending_phases, running_phase, current_phase, phase,
                 nRunners, runner_phase, emitted, skips, kills, stop_pc>>
  /\ UNCHANGED work_vars
  /\ UNCHANGED constructed

\* Variant of KillOnTimeout: the attempt is reported as terminated, not as
\* timed out.
KillOnTimeout_ReturnsTerminated ==
  /\ pc = "kill"
  /\ Kill(nRunners)
  /\ result' = PhaseOutcome("ThreadTerminationError")
  /\ pc' = "finish"
  /\ UNCHANGED <<pending_phases, running_phase, current_phase, phase,
                 nRunners, runner_phase, emitted, skips, stop_pc>>
  /\ UNCHANGED work_vars
  /\ UNCHANGED constructed

\* Variant of KillOnTimeout: the timeout is reported without calling Kill().
KillOnTimeout_NoKill ==
  /\ pc = "kill"
  /\ result' = PhaseOutcome(None)
  /\ pc' = "finish"
  /\ UNCHANGED <<pending_phases, running_phase, current_phase, phase,
                 nRunners, runner_phase, emitted, skips, kills, stop_pc>>
  /\ UNCHANGED work_vars
  /\ UNCHANGED constructed

\* self.Kill(); return PhaseOutcome(None)
KillOnTimeout ==
  /\ pc = "kill"
  /\ Kill(nRunners)
  /\ result' = PhaseOutcome(None)
  /\ pc' = "finish"
  /\ UNCHANGED <<pending_phases, running_phase, current_phase, phase,
                 nRunners, runner_phase, emitted, skips, stop_pc>>
  /\ UNCHANGED work_vars
  /\ UNCHANGED constructed

\* Variant of PopOnOutcome: the phase is popped unless it asked to REPEAT.
PopOnOutcome_UnlessRepeat(o, queue) ==
  IF o.phase_result # "REPEAT" THEN Tail(queue) ELSE queue

\* Variant of PopOnOutcome: the phase is popped whatever the outcome.
PopOnOutcome_Always(o, queue) == Tail(queue)

\* if outcome.phase_result == CONTINUE: pending_phases.pop(0)
PopOnOutcome(o, queue) ==
  IF o.phase_result = "CONTINUE" THEN Tail(queue) ELSE queue

\* Variant of FinishPhase: the generator does not wait to be asked for the
\* next element, it goes on with the loop.
FinishPhase_KeepsGoing ==
  /\ pc = "finish"
  /\ pending_phases' = PopOnOutcome(result, pending_phases)
  /\ emitted' = Append(emitted, [phase |-> phase, runner |-> nRunners,
                                 outcome |-> result])
  /\ pc' = "loop"
  /\ UNCHANGED <<running_phase, current_phase, phase, result, nRunners,
                 runner_phase, skips, kills, stop_pc>>
  /\ UNCHANGED work_vars
  /\ UNCHANGED constructed

\* The rest of _ExecuteOnePhase and the yield of ExecutePhases: the queue is
\* updated from the outcome, the outcome is returned (it is truthy) and yielded.
FinishPhase ==
  /\ pc = "finish"
  /\ pending_phases' = PopOnOutcome(result, pending_phases)
  /\ emitted' = Append(emitted, [phase |-> phase, runner |-> nRunners,
                                 outcome |-> result])
  /\ pc' = "yielded"
  /\ UNCHANGED <<running_phase, current_phase, phase, result, nRunners,
                 runner_phase, skips, kills, stop_pc>>
  /\ UNCHANGED work_vars
  /\ UNCHANGED constructed

Sequencer ==
  \/ LoopTest
  \/ EvalGuard
  \/ StartPhase
  \/ AssignCurrent
  \/ JoinCall
  \/ Join
  \/ CheckOutcome
  \/ CheckAlive
  \/ KillOnTimeout
  \/ FinishPhase

\* ---------------------------------------------------------- work thread
\* JoinOrDie is called once per runner, on the newest one: an older runner's
\* _phase_outcome is never read again, and a write to it changes nothing that
\* the model keeps.
StoreOutcome(r, o) ==
  IF r = nRunners THEN phase_outcome' = o ELSE phase_outcome' = phase_outcome

\* self._phase(self._phase_data) returns and the thread goes on to line 120,
\* self._phase_data.context.pop_all().close(): the scoped resources of the
\* phase are closed.  The value returned stays local to the work thread until
\* line 124 reads it, so it is drawn there.
WorkReturn(r) ==
  /\ thread[r] = "running"
  /\ thread' = [thread EXCEPT ![r] = "closed"]
  /\ UNCHANGED <<phase_outcome, kills, stop_pc>>
  /\ UNCHANGED seq_vars
  /\ UNCHANGED constructed

\* Variant of WorkRaise: the exception is not captured, the thread ends
\* without an outcome.
WorkRaise_NoOutcome(r) ==
  /\ thread[r] = "running"
  /\ thread' = [thread EXCEPT ![r] = "dead"]
  /\ UNCHANGED <<phase_outcome, kills, stop_pc>>
  /\ UNCHANGED seq_vars
  /\ UNCHANGED constructed

\* The phase's work raises: _ThreadException stores PhaseOutcome(exc) and the
\* thread ends.  Nothing on this path closes the context.
WorkRaise(r) ==
  /\ thread[r] = "running"
  /\ StoreOutcome(r, PhaseOutcome("PhaseError"))
  /\ thread' = [thread EXCEPT ![r] = "dead"]
  /\ UNCHANGED <<kills, stop_pc>>
  /\ UNCHANGED seq_vars
  /\ UNCHANGED constructed

\* if phase_return is None: phase_return = openhtf.PhaseResult.CONTINUE
DefaultReturn(v) == IF v = None THEN "CONTINUE" ELSE v

\* Variant of StoredOutcome: a return value the constructor rejects is
\* replaced by the default result.
StoredOutcome_InvalidIsContinue(phase_return) ==
  IF PhaseOutcomeAccepts(phase_return) THEN PhaseOutcome(phase_return)
  ELSE PhaseOutcome("CONTINUE")

\* self._phase_outcome = PhaseOutcome(phase_return); when the constructor
\* raises, _ThreadException stores PhaseOutcome(InvalidPhaseResultError).
StoredOutcome(phase_return) ==
  IF PhaseOutcomeAccepts(phase_return) THEN PhaseOutcome(phase_return)
  ELSE PhaseOutcome("InvalidPhaseResultError")

SetOutcome(r) ==
  /\ thread[r] = "closed"
  /\ \E v \in WorkReturns : StoreOutcome(r, StoredOutcome(DefaultReturn(v)))
  /\ thread' = [thread EXCEPT ![r] = "dead"]
  /\ UNCHANGED <<kills, stop_pc>>
  /\ UNCHANGED seq_vars
  /\ UNCHANGED constructed

\* A requested Kill takes effect: the thread ends without storing an outcome
\* (JoinOrDie's "Phase was killed" case).  Best effort: it need not happen.
KillLands(r) ==
  /\ is_alive(r)
  /\ kills[r] > 0
  /\ thread' = [thread EXCEPT ![r] = "dead"]
  /\ UNCHANGED <<phase_outcome, kills, stop_pc>>
  /\ UNCHANGED seq_vars
  /\ UNCHANGED constructed

Work ==
  \E r \in Runners :
    \/ WorkReturn(r)
    \/ WorkRaise(r)
    \/ SetOutcome(r)
    \/ KillLands(r)

\* ------------------------------------------------------------- Stop()
\* if self._current_phase:
StopCheck ==
  /\ stop_pc["idle"] > 0
  /\ LET to == IF current_phase # 0 THEN "kill" ELSE "done" IN
       stop_pc' = [stop_pc EXCEPT !["idle"] = @ - 1, ![to] = @ + 1]
  /\ UNCHANGED kills
  /\ UNCHANGED seq_vars
  /\ UNCHANGED work_vars
  /\ UNCHANGED constructed

\* self._current_phase.Kill()
StopKill ==
  /\ stop_pc["kill"] > 0
  /\ Kill(current_phase)
  /\ stop_pc' = [stop_pc EXCEPT !["kill"] = @ - 1, !["done"] = @ + 1]
  /\ UNCHANGED seq_vars
  /\ UNCHANGED work_vars
  /\ UNCHANGED constructed

Stop ==
  \/ StopCheck
  \/ StopKill

\* ------------------------------------------------------- specification
Next ==
  \/ Consume
  \/ Sequencer
  \/ Work
  \/ Stop

Spec == Init /\ [][Next]_vars

\* The sequencing thread is scheduled, and the caller keeps consuming.
LiveSpec == Spec /\ WF_vars(Sequencer) /\ WF_vars(Consume)

\* PhaseOutcome on its own: a client calls PhaseOutcome(phase_result) with
\* any value, and the call gives a PhaseOutcome or raises.
Construct ==
  /\ Len(constructed) < MaxConstructs
  /\ \E phase_result \in PyValues :
       constructed' = Append(constructed, [arg |-> phase_result,
                                          gave |-> NewPhaseOutcome(phase_result)])
  /\ UNCHANGED <<pending_phases, running_phase, current_phase, pc, phase, result,
                 nRunners, runner_phase, thread, phase_outcome, kills, stop_pc,
                 emitted, skips>>

ConstructSpec == Init /\ [][Construct]_vars

TypeOK ==
  /\ pc \in {"idle", "loop", "guard", "start", "assign", "join", "joining", "chk_outcome",
             "chk_alive", "kill", "finish", "yielded", "done"}
  /\ nRunners \in 0..MaxAttempts
  /\ current_phase \in 0..MaxAttempts
  /\ Len(emitted) <= MaxAttempts
  /\ stop_pc \in [StopPositions -> 0..NStoppers]
  /\ stop_pc["idle"] + stop_pc["kill"] + stop_pc["done"] = NStoppers
  /\ thread \in [Runners -> {"unstarted", "running", "closed", "dead"}]

\* ------------------------------------------------------------- properties
\* Positions of the sequencing thread inside one phase attempt: from the
\* decision to run the phase to the return of its outcome.
InAttempt ==
  {"start", "assign", "join", "joining", "chk_outcome", "chk_alive", "kill", "finish"}

\* The step in which _ExecuteOnePhase returns an outcome and it is yielded.
Emits == pc = "finish" /\ pc' = "yielded"

\* The step in which _ExecuteOnePhase skips a phase whose run_if is falsey.
SkipsPhase == pc = "guard" /\ pc' = "loop"

\* The step in which a new runner thread is started.
Starts == pc = "start" /\ pc' = "assign"

Last(q) == q[Len(q)]

\* C1 as stated: once an outcome that is FAIL, a timeout or an error has been
\* yielded it is the last element, and no further phase attempt is started.
C1_TerminalOutcomeIsLast ==
  \A i \in 1..Len(emitted) :
    Terminal(emitted[i].outcome) => (i = Len(emitted) /\ nRunners = i)

\* C1 amended: a FAIL, timeout or error outcome is yielded with the queue left
\* unchanged and its phase still at the head; ExecutePhases itself does not
\* stop there: the generator ends only when the queue is empty, so when the
\* caller asks again the phase at the head is evaluated again.
C1_TerminalOutcomeKeepsQueue ==
  [][/\ (Emits /\ Terminal(result)) =>
          /\ pending_phases' = pending_phases
          /\ pending_phases # <<>>
          /\ Head(pending_phases') = phase
          /\ emitted' = Append(emitted, [phase |-> phase, runner |-> nRunners,
                                         outcome |-> result])
     /\ (pc' = "done") => (pending_phases' = <<>>)
     /\ (pc = "loop" /\ pc' = "guard" /\ emitted # <<>>
           /\ Terminal(Last(emitted).outcome)
           /\ <<Last(emitted).phase, Len(emitted)>> \notin skips)
          => phase' = Last(emitted).phase]_vars

\* C1 witness: after a terminal outcome of the first attempt, a second
\* attempt of the same phase has been started.
C1_Witness ==
  /\ Len(emitted) >= 1
  /\ Terminal(emitted[1].outcome)
  /\ nRunners = 2
  /\ runner_phase[2] = emitted[1].phase

\* C2: during an attempt the queue is not touched; when the attempt's outcome
\* is returned the queue loses exactly its front element if the outcome is
\* CONTINUE and is unchanged for every other outcome, and in both cases the
\* outcome is yielded.
C2_QueueAfterAttempt ==
  [][/\ (pc \in InAttempt /\ pc' \in InAttempt) => pending_phases' = pending_phases
     /\ Emits =>
          /\ pending_phases # <<>>
          /\ pending_phases' =
               IF result = PhaseOutcome("CONTINUE")
                 THEN SubSeq(pending_phases, 2, Len(pending_phases))
                 ELSE pending_phases
          /\ Len(emitted') = Len(emitted) + 1
          /\ Last(emitted').outcome = result
          /\ Last(emitted').phase = phase]_vars

\* C2 witness: a REPEAT left the queue as it was and the CONTINUE that
\* followed removed the first phase.
C2_Witness ==
  /\ Len(emitted) = 2
  /\ emitted[1].phase = 1 /\ emitted[1].outcome = PhaseOutcome("REPEAT")
  /\ emitted[2].phase = 1 /\ emitted[2].outcome = PhaseOutcome("CONTINUE")
  /\ pending_phases = <<2>>

\* C3 as stated: the attempt started next after a REPEAT outcome is an
\* attempt of the same phase.
C3_RepeatRunsSamePhaseNext ==
  \A r \in 1..Len(emitted) :
    (emitted[r].outcome = PhaseOutcome("REPEAT") /\ r < nRunners)
      => runner_phase[r + 1] = runner_phase[r]

\* C3 amended: on REPEAT the phase stays at the head of the queue, the outcome
\* is yielded and the generator does not end; the next iteration evaluates the
\* same phase again, run_if included: unless run_if is now falsey and the
\* phase is skipped, the next attempt is an attempt of that phase on a new
\* runner (new thread, no outcome stored).
C3_RepeatKeepsHead ==
  [][/\ (Emits /\ result = PhaseOutcome("REPEAT")) =>
          /\ pending_phases' = pending_phases
          /\ Head(pending_phases') = phase
          /\ Last(emitted') = [phase |-> phase, runner |-> nRunners,
                               outcome |-> result]
     /\ (pc = "loop" /\ pc' # pc /\ emitted # <<>>
           /\ Last(emitted).outcome = PhaseOutcome("REPEAT")
           /\ <<Last(emitted).phase, Len(emitted)>> \notin skips)
          => (pc' = "guard" /\ phase' = Last(emitted).phase)
     /\ Starts =>
          /\ nRunners' = nRunners + 1
          /\ thread[nRunners'] = "unstarted" /\ thread'[nRunners'] = "running"
          /\ phase_outcome' = NoOutcome
          /\ (emitted # <<>> /\ Last(emitted).outcome = PhaseOutcome("REPEAT")
                /\ <<Last(emitted).phase, Len(emitted)>> \notin skips)
               => runner_phase'[nRunners'] = Last(emitted).phase]_vars

\* C3 witness: the first attempt returned REPEAT and the second attempt is an
\* attempt of the same phase.
C3_Witness ==
  /\ Len(emitted) >= 1
  /\ emitted[1].outcome = PhaseOutcome("REPEAT")
  /\ nRunners = 2
  /\ runner_phase[2] = runner_phase[1]
  /\ thread[2] = "running"

\* C4: every attempt is started on the phase at the front of the queue, and
\* only once the outcome of every earlier attempt has been obtained; the
\* queue changes only by losing its front element, either on a falsey run_if
\* or after an attempt of that very phase returned CONTINUE.
C4_QueueOrder ==
  [][/\ Starts =>
          /\ pending_phases # <<>>
          /\ runner_phase'[nRunners'] = Head(pending_phases)
          /\ running_phase' = Head(pending_phases)
          /\ Len(emitted) = nRunners
          /\ \A r \in 1..nRunners : emitted[r].runner = r
     /\ (pending_phases' # pending_phases) =>
          /\ pending_phases # <<>>
          /\ pending_phases' = SubSeq(pending_phases, 2, Len(pending_phases))
          /\ \/ SkipsPhase
             \/ /\ Emits
                /\ result = PhaseOutcome("CONTINUE")
                /\ runner_phase[nRunners] = Head(pending_phases)]_vars

\* C4 witness: the first phase was attempted and returned CONTINUE, and the
\* second attempt runs the second phase.
C4_Witness ==
  /\ nRunners = 2
  /\ Len(emitted) = 1
  /\ emitted[1].outcome = PhaseOutcome("CONTINUE")
  /\ runner_phase = <<1, 2>>
  /\ pending_phases = <<2>>

\* C5: a phase whose run_if is falsey is popped from the front of the queue
\* without a runner, a running-phase record or an outcome, and the loop goes
\* straight on to the next head; every outcome yielded after the skip
\* belongs to a later phase.
C5_GuardFalseSkips ==
  [][/\ SkipsPhase =>
          /\ pending_phases # <<>>
          /\ Head(pending_phases) = phase
          /\ pending_phases' = SubSeq(pending_phases, 2, Len(pending_phases))
          /\ nRunners' = nRunners
          /\ thread' = thread
          /\ running_phase' = running_phase
          /\ emitted' = emitted
     /\ \A sk \in skips' : \A i \in (sk[2] + 1)..Len(emitted') :
          emitted'[i].phase > sk[1]]_vars

\* C5 witness: the first phase was skipped before anything was yielded, no
\* record or runner exists for it, and the first outcome is the second
\* phase's.
C5_Witness ==
  /\ <<1, 0>> \in skips
  /\ Len(emitted) = 1
  /\ emitted[1].phase = 2
  /\ runner_phase[1] = 2
  /\ running_phase = 2

\* No outcome yielded so far is anything but CONTINUE or REPEAT.
OnlyContinueOrRepeat ==
  \A i \in 1..Len(emitted) :
    emitted[i].outcome.phase_result \in {"CONTINUE", "REPEAT"}

\* The caller has taken all the elements it is going to take while phases
\* are still pending.
CallerStopped ==
  pc = "yielded" /\ nRunners >= MaxAttempts /\ pending_phases # <<>>

\* The generator has ended with nothing left in the queue.
Ended == pc = "done" /\ pending_phases = <<>>

\* The yielded sequence holds one outcome per attempt, in the order of the
\* attempts, which is the order of the queue: a phase is followed by itself
\* (after anything but CONTINUE) or by a later phase, and when the generator
\* has ended every phase was skipped or has a CONTINUE as its last outcome.
OneOutcomePerAttempt ==
  /\ \A i \in 1..Len(emitted) :
       emitted[i].runner = i /\ emitted[i].phase = runner_phase[i]
  /\ Len(emitted) = IF pc \in InAttempt \ {"start"} THEN nRunners - 1 ELSE nRunners
  /\ \A i \in 1..(Len(emitted) - 1) :
       IF emitted[i].outcome = PhaseOutcome("CONTINUE")
         THEN emitted[i + 1].phase > emitted[i].phase
         ELSE emitted[i + 1].phase >= emitted[i].phase
  /\ Ended =>
       \A p \in Phases :
         \/ \E sk \in skips : sk[1] = p
         \/ \E i \in 1..Len(emitted) :
              /\ emitted[i] = [phase |-> p, runner |-> i,
                               outcome |-> PhaseOutcome("CONTINUE")]
              /\ \A j \in (i + 1)..Len(emitted) : emitted[j].phase > p

\* C6: when every attempt returns CONTINUE or REPEAT and the caller keeps
\* consuming, ExecutePhases ends with the pending queue empty, and the
\* yielded sequence holds exactly one outcome per attempt in queue order.
C6_EndsWithQueueEmpty ==
  /\ []OneOutcomePerAttempt
  /\ <>(Ended \/ ~OnlyContinueOrRepeat \/ CallerStopped)

\* C6 witness: the first phase was skipped, the second returned REPEAT once
\* and then CONTINUE, and the generator has ended with the queue empty.
C6_Witness ==
  /\ Ended
  /\ emitted = <<[phase |-> 2, runner |-> 1, outcome |-> PhaseOutcome("REPEAT")],
                 [phase |-> 2, runner |-> 2, outcome |-> PhaseOutcome("CONTINUE")]>>

\* C7: when JoinOrDie, after its join, finds no stored outcome and the thread
\* alive, it calls Kill() on that runner and returns the timeout outcome in
\* the same step, without the work thread having moved: every timeout outcome
\* comes with a Kill request on its runner.
C7_TimeoutKillsWithoutWaiting ==
  [][/\ (pc = "chk_alive" /\ pc' # pc /\ is_alive(nRunners)) => pc' = "kill"
     /\ (pc = "kill" /\ pc' # pc) =>
          /\ kills'[nRunners] = kills[nRunners] + 1
          /\ is_timeout(result')
          /\ pc' = "finish"
          /\ thread' = thread
     /\ \A i \in 1..Len(emitted') :
          is_timeout(emitted'[i].outcome) => kills'[i] >= 1]_vars

\* C7 witness: the timeout outcome of the first attempt has been yielded, its
\* runner was asked to die once, and its work thread is still running.
C7_Witness ==
  /\ Len(emitted) = 1
  /\ is_timeout(emitted[1].outcome)
  /\ kills[1] = 1
  /\ thread[1] = "running"

\* Positions of the sequencing thread inside JoinOrDie, in the order of the
\* code, and the position reached when it has returned.
JoinOrDieRank ==
  [p \in {"join", "joining", "chk_outcome", "chk_alive", "kill", "finish"} |->
     CASE p = "join" -> 1
       [] p = "joining" -> 2
       [] p = "chk_outcome" -> 3
       [] p = "chk_alive" -> 4
       [] p = "kill" -> 5
       [] p = "finish" -> 6]

\* C8: every call of JoinOrDie returns, with exactly one PhaseOutcome,
\* whatever the work thread does: at every position inside JoinOrDie the
\* sequencing thread has a step it can take (the join is bounded, nothing
\* else waits), every step it takes there moves it forward towards the
\* return, and what it returns is a PhaseOutcome.
C8_JoinOrDieReturns ==
  [][/\ (pc \in {"join", "joining", "chk_outcome", "chk_alive", "kill"}) =>
          /\ ENABLED Sequencer
          /\ (pc' # pc) =>
               /\ pc' \in DOMAIN JoinOrDieRank
               /\ JoinOrDieRank[pc'] > JoinOrDieRank[pc]
     /\ (pc' = "finish") => IsPhaseOutcome(result')]_vars

\* C8 witness: JoinOrDie has returned a timeout although the work never
\* returned.
C8_Witness ==
  /\ pc = "finish"
  /\ is_timeout(result)
  /\ thread[nRunners] = "running"

\* The step in which JoinOrDie returns its outcome.
JoinOrDieReturns ==
  pc \in {"chk_outcome", "chk_alive", "kill"} /\ pc' = "finish"

\* C9 as stated: an attempt on whose runner Kill() was requested before
\* JoinOrDie returned never yields CONTINUE, REPEAT or FAIL.
C9_KillRequestedNeverResult ==
  [][(JoinOrDieReturns /\ kills[nRunners] > 0)
       => result'.phase_result \notin ValidPhaseReturns]_vars

\* C9 amended: JoinOrDie returns CONTINUE, REPEAT or FAIL only as the outcome
\* the work thread itself stored; when the work thread was terminated before
\* it stored an outcome, JoinOrDie returns the termination error or the
\* timeout outcome, never a result.
C9_KilledBeforeOutcomeNeverResult ==
  [][JoinOrDieReturns =>
       /\ (thread[nRunners] = "dead" /\ ~IsPhaseOutcome(phase_outcome))
            => result' \in {PhaseOutcome("ThreadTerminationError"), PhaseOutcome(None)}
       /\ (result'.phase_result \in ValidPhaseReturns) => result' = phase_outcome]_vars

\* C9 witness: Kill() was requested on the running attempt, the thread ended
\* without an outcome, and JoinOrDie returned the termination error.
C9_Witness ==
  /\ pc = "finish"
  /\ kills[nRunners] > 0
  /\ thread[nRunners] = "dead"
  /\ ~IsPhaseOutcome(phase_outcome)
  /\ result = PhaseOutcome("ThreadTerminationError")

\* A phase attempt is running: its thread has been started and JoinOrDie has
\* not yet returned its outcome.
Running == pc \in {"assign", "join", "joining", "chk_outcome", "chk_alive", "kill"}

\* C10: a Stop() that acts while an attempt is running finds the runner of
\* that attempt in _current_phase (it is neither dropped nor aimed at an
\* earlier runner) and its Kill() reaches that runner.
C10_StopReachesRunningRunner ==
  [][(Running /\ stop_pc' # stop_pc) =>
       /\ current_phase = nRunners
       /\ stop_pc'["idle"] < stop_pc["idle"] => stop_pc'["kill"] > stop_pc["kill"]
       /\ stop_pc'["kill"] < stop_pc["kill"] =>
            kills'[nRunners] = kills[nRunners] + 1]_vars

\* C11: while a phase is running its runner has received at most one Kill(),
\* however many calls of Stop() have acted on it.  (Before JoinOrDie returns
\* only Stop() calls Kill() on the running attempt's runner.)
C11_OneKillPerRunningPhase ==
  Running => kills[nRunners] <= 1

\* No phase is running: before the first attempt, between two attempts (the
\* outcome of one was yielded, the next thread is not started) or after the
\* last one.
NoPhaseRunning == pc \in {"idle", "yielded", "loop", "guard", "start", "done"}

\* C12: no step of Stop() changes the pending queue or any other state of the
\* sequencing or of a phase thread, and a Stop() that is called when no phase
\* is running finds nothing to kill: it returns without calling Kill().
C12_StopIsNoOpWhenIdle ==
  [][(stop_pc' # stop_pc) =>
       /\ pending_phases' = pending_phases
       /\ UNCHANGED <<running_phase, current_phase, pc, phase, result, nRunners,
                      runner_phase, emitted, skips, thread, phase_outcome>>
       /\ (NoPhaseRunning /\ stop_pc'["idle"] < stop_pc["idle"]) =>
            (stop_pc'["kill"] = stop_pc["kill"] /\ kills' = kills)]_vars

\* C13: whatever phase.options.timeout_s is (None, positive, zero, negative),
\* the join of JoinOrDie waits: with the thread alive it blocks, so JoinOrDie
\* never goes on to its checks, and to a timeout outcome, without having
\* waited.
C13_JoinAlwaysWaits ==
  [][(pc = "join" /\ pc' # pc /\ is_alive(nRunners)) => pc' = "joining"]_vars

\* C14: the outcome of an attempt is set only by a work thread that has
\* closed the scoped resources of the phase (line 120), on the path where the
\* work returned and on the path where it raised alike.
C14_ClosedBeforeOutcome ==
  [][(phase_outcome' # phase_outcome /\ IsPhaseOutcome(phase_outcome'))
       => thread[nRunners] = "closed"]_vars

\* C15: when the work of the running attempt raises (its thread ends from
\* inside the work, with no Kill() requested), the error is stored by the
\* work thread as the attempt's outcome and nothing of the sequencing thread
\* changes; JoinOrDie returns a stored error outcome as it is, and
\* ExecutePhases yields it like any other outcome.
C15_WorkErrorBecomesOutcome ==
  [][/\ \A r \in Runners :
          (thread[r] = "running" /\ thread'[r] = "dead" /\ kills[r] = 0) =>
            /\ UNCHANGED seq_vars
            /\ (r = nRunners) =>
                 (phase_outcome' = PhaseOutcome("PhaseError")
                    /\ raised_exception(phase_outcome'))
     /\ (pc = "chk_outcome" /\ pc' # pc /\ IsPhaseOutcome(phase_outcome)
           /\ raised_exception(phase_outcome)) =>
          (result' = phase_outcome /\ pc' = "finish")
     /\ (pc = "finish" /\ pc' # pc /\ raised_exception(result)) =>
          /\ pc' = "yielded"
          /\ emitted' = Append(emitted, [phase |-> phase, runner |-> nRunners,
                                         outcome |-> result])]_vars

\* C15 witness: the work of the first attempt raised with no Kill() requested,
\* and ExecutePhases has yielded the error outcome.
C15_Witness ==
  /\ pc = "yielded"
  /\ Len(emitted) = 1
  /\ emitted[1].outcome = PhaseOutcome("PhaseError")
  /\ phase_outcome = PhaseOutcome("PhaseError")
  /\ thread[1] = "dead"
  /\ kills[1] = 0

\* C16: every outcome is handed over with the generator suspended at its
\* yield; while it is suspended there the sequencing thread has no step of
\* its own, the pending queue, the current-runner reference and the
\* running-phase record stay as they are and no thread is started, whatever
\* the other threads do; the only way on is the caller's next request, which
\* itself changes none of them.
C16_NoProgressUntilConsumed ==
  [][/\ (emitted' # emitted) => pc' = "yielded"
     /\ (pc = "yielded") =>
          /\ ~ENABLED Sequencer
          /\ UNCHANGED <<pending_phases, current_phase, running_phase, nRunners,
                         runner_phase, emitted>>
          /\ \A r \in Runners : thread[r] = "unstarted" => thread'[r] = "unstarted"
          /\ pc' \in {"yielded", "loop"}]_vars

\* C16 witness: the first outcome has been yielded and not yet followed by a
\* request, both Stop() calls have been made in the meantime, and the queue
\* and the runner are as the attempt left them.
C16_Witness ==
  /\ pc = "yielded"
  /\ Len(emitted) = 1
  /\ stop_pc["done"] = NStoppers
  /\ kills[1] = NStoppers
  /\ nRunners = 1
  /\ pending_phases = <<1, 2>>

C19_TerminatedOnlyIfKilled ==
  [][(JoinOrDieReturns /\ result' = PhaseOutcome("ThreadTerminationError"))
       => kills[nRunners] > 0]_vars

\* The step in which the running attempt's work thread, its work having
\* returned, stores its outcome (line 124, or line 127 when line 124 raises).
StoresAfterReturn ==
  /\ nRunners > 0
  /\ thread[nRunners] = "closed"
  /\ thread'[nRunners] = "dead"
  /\ phase_outcome' # phase_outcome

====
